---- MODULE Spec2Model ----
(***************************************************************************)
(* State-machine model of HttpsRequest (mbed-http/source/https_request.h): *)
(* one request object, its transport, the TLS channel under it and the     *)
(* streaming response parser it feeds.  send() is modelled step by step,   *)
(* one action per library call it makes; the results of the transport and  *)
(* of the TLS library are drawn from the values their interfaces allow.    *)
(* Spec is that machine.  SpecHeaders is the request's header map under    *)
(* set_header, and SpecSpeech is SpeechInterface                           *)
(* (SpeechRecognition/SpeechInterface.cpp), which chains such requests.    *)
(***************************************************************************)
EXTENDS Integers, Sequences, FiniteSets, TLC

(***************************************************************************)
(* Bounds of the model.                                                    *)
(***************************************************************************)
\* send() calls made on the one request object
MaxSends == 2
\* largest request body, in bytes
MaxBody == 3
\* longest response stream the server delivers, in bytes
MaxStream == 3
\* the body chunking threshold (4000 in the source), scaled down
WriteChunk == 2
\* HTTP_RECEIVE_BUFFER_SIZE (defined outside src/), scaled down
HTTP_RECEIVE_BUFFER_SIZE == 2

(***************************************************************************)
(* Result codes of the transport (nsapi) and of the TLS library.           *)
(***************************************************************************)
NSAPI_ERROR_OK == 0
NSAPI_ERROR_WOULD_BLOCK == -3001
NSAPI_ERROR_NO_CONNECTION == -3004
MBEDTLS_ERR_SSL_WANT_READ == -26880
MBEDTLS_ERR_SSL_WANT_WRITE == -26752
\* a non-zero result of mbedtls_ctr_drbg_seed, mbedtls_x509_crt_parse,
\* mbedtls_ssl_config_defaults or mbedtls_ssl_setup
MBEDTLS_ERR_SETUP_FAILED == -52
\* a fatal result of mbedtls_ssl_handshake
MBEDTLS_ERR_SSL_FATAL == -30592
\* the code send() records when the parser rejects a chunk
RESPONSE_PARSE_ERROR == -2101

NULL == 0

VARIABLES
    pc,            \* where send() stands; "idle"/"returned" between calls
    alive,         \* the HttpsRequest object exists
    connected,     \* the TCPSocket is connected (cleared by close())
    _error,        \* HttpsRequest::_error
    _response,     \* HttpsRequest::_response: NULL or the id of an object
    heap,          \* ids of the HttpResponse objects allocated and not freed
    response,      \* contents of the object _response points to
    parser,        \* phase of the HttpResponseParser of the current call
    bodyLen,       \* argument body_size of the current call
    body_size,     \* local: bytes of the body still to write
    send_buf,      \* local: offset of send_buf into the body
    ret,           \* local: int ret
    stream,        \* bytes the server sends on this connection
    rpos,          \* how many of them mbedtls_ssl_read has delivered
    wire,          \* bytes the transport accepted during the current call
    result,        \* what the last call returned: "none", "NULL", "response"
    retStep,       \* the step at which the last call returned
    log,           \* steps the current call has taken, in order
    errSet,        \* _error was assigned during the current call
    hardWriteFail, \* an mbedtls_ssl_write of this call failed hard
    calls,         \* send() calls started so far
    tls,           \* the mbedtls contexts: "init", "setup" or "freed"
    bufs,          \* buffers the current call allocated and has not freed
    overReported,  \* in the write phase of this call, ssl_send told the
                   \* TLS layer of bytes sent that the socket had refused
    headers,       \* the header entries the request builder holds
    setCalls,      \* the set_header calls made so far, in order
    si_alive,      \* the SpeechInterface object exists
    si_response,   \* SpeechInterface::_response: NULL or the id of an object
    requests,      \* ids of the request objects SpeechInterface made and
                   \* has not deleted; a request owns the response of its id
    responses,     \* ids of the HttpResponse objects made and not freed
    freedTwice,    \* a response that was freed already was deleted again
    guidFailedUsed,  \* a speech request was built from the buffer of a
                     \* GUID request that had failed
    tokenFailedUsed, \* a speech request was built from the token of a
                     \* token request that had failed
    absentBodyRead,  \* get_body was called through a NULL _response
    si_crashed,    \* undefined behaviour has brought the program down
    ops,           \* SpeechInterface operations begun so far
    guidRoom,      \* size of the buffer last handed to generateGuidStr
    guidBytes      \* bytes its strcpy wrote there, the terminator included

reqVars == <<pc, alive, connected, _error, _response, heap, response, parser,
             bodyLen, body_size, send_buf, ret, stream, rpos, wire, result,
             retStep, log, errSet, hardWriteFail, calls, tls, bufs,
             overReported>>

hdrVars == <<headers, setCalls>>

spVars == <<si_alive, si_response, requests, responses, freedTwice,
            guidFailedUsed, tokenFailedUsed, absentBodyRead, si_crashed, ops,
            guidRoom, guidBytes>>

vars == <<reqVars, hdrVars, spVars>>

(***************************************************************************)
(* The response parser (http_response_parser.h, http_parser): a response   *)
(* is a status line "S", header lines "H", the blank line "N" that ends    *)
(* the headers, and body bytes "D".                                        *)
(***************************************************************************)
Alphabet == {"S", "H", "N", "D"}

EmptyResponse == [status |-> 0, headers |-> 0, body |-> <<>>]

\* one byte through the parser: the new phase and response contents
ParseByte(ph, rs, b) ==
    CASE ph = "status" ->
            IF b = "S" THEN [phase |-> "headers", rs |-> [rs EXCEPT !.status = 200]]
                       ELSE [phase |-> "error", rs |-> rs]
      [] ph = "headers" ->
            IF b = "H" THEN [phase |-> "headers", rs |-> [rs EXCEPT !.headers = @ + 1]]
            ELSE IF b = "N" THEN [phase |-> "body", rs |-> rs]
            ELSE [phase |-> "error", rs |-> rs]
      [] ph = "body" ->
            [phase |-> "body", rs |-> [rs EXCEPT !.body = Append(@, b)]]
      [] OTHER -> [phase |-> "error", rs |-> rs]

\* HttpResponseParser::execute: feeds the chunk byte by byte, stops at the
\* first byte it rejects and reports how many bytes it consumed
RECURSIVE execute(_, _, _, _)
execute(ph, rs, chunk, nparsed) ==
    IF chunk = <<>> THEN [phase |-> ph, rs |-> rs, nparsed |-> nparsed]
    ELSE LET st == ParseByte(ph, rs, Head(chunk))
         IN  IF st.phase = "error"
             THEN [phase |-> "error", rs |-> rs, nparsed |-> nparsed]
             ELSE execute(st.phase, st.rs, Tail(chunk), nparsed + 1)

\* the response a parser yields when it is given the whole stream at once
ParseAll(s) == execute("status", EmptyResponse, s, 0)

SeqsUpTo(n) == UNION {[1..k -> Alphabet] : k \in 0..n}

\* streams the server may send: any bytes up to the first one the parser
\* rejects, body bytes being "D"
Streams ==
    {s \in SeqsUpTo(MaxStream) :
        \A i \in 1..Len(s) :
            LET before == ParseAll(SubSeq(s, 1, i - 1))
            IN  /\ before.phase # "error"
                /\ before.phase = "body" => s[i] = "D"}

\* a complete, valid response: status line, headers, blank line, body
ValidResponse(s) == ParseAll(s).phase = "body"

(***************************************************************************)
(* The transport under the TLS layer, and the two BIO callbacks.           *)
(***************************************************************************)
\* what TCPSocket::connect may report
ConnectResults == {NSAPI_ERROR_OK, NSAPI_ERROR_WOULD_BLOCK, NSAPI_ERROR_NO_CONNECTION}

\* what TCPSocket::send may report for len bytes: a count, or an error
SocketSendResults(len) ==
    (1..len) \cup {NSAPI_ERROR_WOULD_BLOCK, NSAPI_ERROR_NO_CONNECTION}

\* what TCPSocket::recv may report with avail bytes still to come: a count
\* (0 once the server has sent everything and closed), or an error
SocketRecvResults(len, avail) ==
    (1..(IF len < avail THEN len ELSE avail)) \cup {NSAPI_ERROR_WOULD_BLOCK, NSAPI_ERROR_NO_CONNECTION}
        \cup (IF avail = 0 THEN {0} ELSE {})

\* HttpsRequest::ssl_send, given what socket->send returned
ssl_send(size, len) ==
    IF size = NSAPI_ERROR_WOULD_BLOCK THEN len
    ELSE IF size < 0 THEN -1
    ELSE size

\* HttpsRequest::ssl_recv, given what socket->recv returned
ssl_recv(recv) ==
    IF recv = NSAPI_ERROR_WOULD_BLOCK THEN MBEDTLS_ERR_SSL_WANT_READ
    ELSE IF recv < 0 THEN -1
    ELSE recv

\* the TLS layer pushing a record of `left` bytes through ssl_send until it
\* is gone or ssl_send reports a result <= 0: the result (0 when flushed)
\* and how many bytes the transport really took
\* and whether ssl_send reported more bytes sent than the socket took
RECURSIVE FlushOutput(_, _, _)
FlushOutput(left, onWire, over) ==
    IF left = 0 THEN {[ret |-> 0, onWire |-> onWire, over |-> over]}
    ELSE UNION {
        LET r == ssl_send(size, left)
            took == IF size > 0 THEN size ELSE 0
        IN  IF r <= 0 THEN {[ret |-> r, onWire |-> onWire, over |-> over]}
            ELSE FlushOutput(left - r, onWire + took, over \/ r > took)
        : size \in SocketSendResults(left)}

\* mbedtls_ssl_write of len bytes: it takes n <= len of them (a partial
\* write), and returns n, the failure of the flush, or a want-read/write
\* condition of its own
mbedtls_ssl_write(len) ==
    {[ret |-> w, onWire |-> 0, over |-> FALSE] :
        w \in {MBEDTLS_ERR_SSL_WANT_READ, MBEDTLS_ERR_SSL_WANT_WRITE}}
    \cup UNION {
        {[ret |-> (IF o.ret = 0 THEN n ELSE o.ret), onWire |-> o.onWire,
          over |-> o.over] :
            o \in FlushOutput(n, 0, FALSE)}
        : n \in 1..len}

\* mbedtls_ssl_read into a buffer of len bytes
mbedtls_ssl_read(len, avail) ==
    {ssl_recv(r) : r \in SocketRecvResults(len, avail)}
        \cup {MBEDTLS_ERR_SSL_WANT_WRITE}

\* what mbedtls_ssl_handshake may report
HandshakeResults ==
    {0, MBEDTLS_ERR_SSL_WANT_READ, MBEDTLS_ERR_SSL_WANT_WRITE, MBEDTLS_ERR_SSL_FATAL}

\* what the four TLS set-up calls at the head of send() may report
SetupResults == {0, MBEDTLS_ERR_SETUP_FAILED}

(***************************************************************************)
(* The request as it goes out: the serialized head (one byte, 0), the body *)
(* bytes 1..body_size, and the CRLF terminator (13, 10).                   *)
(***************************************************************************)
\* HttpRequestBuilder::build: the serialized request line and headers
build == <<0>>

BodyBytes(from, n) == [i \in 1..n |-> from + i]

CRLF == <<13, 10>>

(***************************************************************************)
(* Tests and updates send() makes.                                         *)
(***************************************************************************)
\* the test with the want-read comparison left out
IsHardErrorWithoutWantRead(r) == r # MBEDTLS_ERR_SSL_WANT_WRITE

\* ret != MBEDTLS_ERR_SSL_WANT_READ && ret != MBEDTLS_ERR_SSL_WANT_WRITE
IsHardError(r) ==
    r # MBEDTLS_ERR_SSL_WANT_READ /\ r # MBEDTLS_ERR_SSL_WANT_WRITE

\* the test letting a would-block result through
ConnectFailedUnlessWouldBlock(r) ==
    r # NSAPI_ERROR_OK /\ r # NSAPI_ERROR_WOULD_BLOCK

\* ret != NSAPI_ERROR_OK after connect
ConnectFailed(r) == r # NSAPI_ERROR_OK

\* the test with the comparison turned the wrong way
ParserFailedWrongWay(nparsed, bpos) == nparsed > bpos

\* nparsed != _bpos in the read loop
ParserFailed(nparsed, bpos) == nparsed # bpos

\* the test with the bound one too low
NoMoreChunksOneLess(bpos) == bpos < HTTP_RECEIVE_BUFFER_SIZE - 1

\* _bpos < HTTP_RECEIVE_BUFFER_SIZE: "No more chunks?"
NoMoreChunks(bpos) == bpos < HTTP_RECEIVE_BUFFER_SIZE

\* an assignment to _error
SetError(e) == _error' = e /\ errSet' = TRUE

\* onError without the close
onErrorWithoutClose(error) == SetError(error) /\ UNCHANGED connected

\* HttpsRequest::onError
onError(error) == connected' = FALSE /\ SetError(error)

\* the failure branch with the else branch (_error = ret) left out
FailWithWantUnrecorded(r) ==
    IF IsHardError(r) THEN onError(-1)
    ELSE UNCHANGED <<connected, _error, errSet>>

\* the failure branch shared by the handshake, the writes and the read:
\* a hard error goes to onError, a want-read/write is only recorded
FailWith(r) ==
    IF IsHardError(r) THEN onError(-1)
    ELSE SetError(r) /\ UNCHANGED connected

\* return from send()
Return(res, step) == pc' = "returned" /\ result' = res /\ retStep' = step

\* body_size < 4000 ? body_size : 4000
send_size(bs) == IF bs < WriteChunk THEN bs ELSE WriteChunk

\* a check that never reports a failed write
check_mbedtls_ssl_write_Never(r) == FALSE

\* check_mbedtls_ssl_write: its return value
check_mbedtls_ssl_write(r) == r < 0

\* a step that goes on to the next one
Goto(p) == pc' = p /\ UNCHANGED <<result, retStep>>

\* a step that leaves _error and the transport as they are
NoFailure == UNCHANGED <<connected, _error, errSet>>

\* values the uninitialised member _error may hold after construction
Uninitialised == {0, 7}

\* the variables of the header map and of SpeechInterface, which no step of
\* send(), close() or the destructor touches
outside == <<hdrVars, spVars>>

\* recv_buffer[_bpos] = 0 lands inside malloc(HTTP_RECEIVE_BUFFER_SIZE)
TerminatorInBounds(bpos) == bpos < HTTP_RECEIVE_BUFFER_SIZE

\* what the store of the terminator does: past the end of the block it is
\* undefined, and either goes unnoticed or brings the program down
TerminatorWrite(bpos) ==
    IF TerminatorInBounds(bpos) THEN {"stored"} ELSE {"unnoticed", "crash"}

(***************************************************************************)
(* Construction.                                                           *)
(***************************************************************************)
\* SpeechInterface::SpeechInterface: _response = NULL, nothing requested yet
SpeechInterfaceInit ==
    /\ si_alive = TRUE
    /\ si_response = NULL
    /\ requests = {}
    /\ responses = {}
    /\ freedTwice = FALSE
    /\ guidFailedUsed = FALSE
    /\ tokenFailedUsed = FALSE
    /\ absentBodyRead = FALSE
    /\ si_crashed = FALSE
    /\ ops = 0
    /\ guidRoom = 0
    /\ guidBytes = 0

\* HttpsRequest::HttpsRequest, and the SpeechInterface beside it
Init ==
    /\ pc = "idle"
    /\ alive = TRUE
    /\ connected = FALSE
    /\ _error \in Uninitialised
    /\ _response = NULL
    /\ heap = {}
    /\ response = EmptyResponse
    /\ parser = "status"
    /\ bodyLen = 0
    /\ body_size = 0
    /\ send_buf = 0
    /\ ret = 0
    /\ stream = <<>>
    /\ rpos = 0
    /\ wire = <<>>
    /\ result = "none"
    /\ retStep = "none"
    /\ log = <<>>
    /\ errSet = FALSE
    /\ hardWriteFail = FALSE
    /\ calls = 0
    /\ tls = "init"
    /\ bufs = {}
    /\ overReported = FALSE
    /\ headers = <<>>
    /\ setCalls = <<>>
    /\ SpeechInterfaceInit

(***************************************************************************)
(* send(body, body_size), step by step.                                    *)
(***************************************************************************)
\* a call that takes up the body where the call before it stopped
SendResuming(n) ==
    /\ pc \in {"idle", "returned"}
    /\ alive
    /\ calls < MaxSends
    /\ calls' = calls + 1
    /\ bodyLen' = n
    /\ body_size' = (IF pc = "returned" /\ send_buf > 0 /\ send_buf <= n
                     THEN n - send_buf ELSE n)
    /\ send_buf' = (IF pc = "returned" /\ send_buf > 0 /\ send_buf <= n
                    THEN send_buf ELSE 0)
    /\ ret' = 0
    /\ stream' = <<>>
    /\ rpos' = 0
    /\ wire' = <<>>
    /\ parser' = "status"
    /\ log' = <<>>
    /\ errSet' = FALSE
    /\ hardWriteFail' = FALSE
    /\ bufs' = {}
    /\ overReported' = FALSE
    /\ pc' = "setup"
    /\ result' = "none"
    /\ retStep' = "none"
    /\ UNCHANGED <<alive, connected, _error, _response, heap, response, tls>>
    /\ UNCHANGED outside

\* the caller enters send() with a body of n bytes: every local starts
\* afresh, whatever the call before did
Send(n) ==
    /\ pc \in {"idle", "returned"}
    /\ alive
    /\ calls < MaxSends
    /\ calls' = calls + 1
    /\ bodyLen' = n
    /\ body_size' = n
    /\ send_buf' = 0
    /\ ret' = 0
    /\ stream' = <<>>
    /\ rpos' = 0
    /\ wire' = <<>>
    /\ parser' = "status"
    /\ log' = <<>>
    /\ errSet' = FALSE
    /\ hardWriteFail' = FALSE
    /\ bufs' = {}
    /\ overReported' = FALSE
    /\ pc' = "setup"
    /\ result' = "none"
    /\ retStep' = "none"
    /\ UNCHANGED <<alive, connected, _error, _response, heap, response, tls>>
    /\ UNCHANGED outside

\* seeding, CA parsing, configuration and ssl_setup: the first call that
\* reports a non-zero result ends send()
Setup ==
    /\ pc = "setup"
    /\ \E r \in SetupResults :
        /\ ret' = r
        /\ IF r # 0
           THEN /\ SetError(r) /\ UNCHANGED connected
                /\ Return("NULL", "setup")
                /\ UNCHANGED tls
           ELSE /\ NoFailure /\ Goto("connect")
                /\ tls' = "setup"
    /\ log' = Append(log, "setup")
    /\ UNCHANGED <<alive, _response, heap, response, parser, bodyLen,
                   body_size, send_buf, stream, rpos, wire, hardWriteFail,
                   calls, bufs, overReported>>
    /\ UNCHANGED outside

\* _tcpsocket->connect
Connect ==
    /\ pc = "connect"
    /\ \E r \in ConnectResults :
        /\ ret' = r
        /\ IF ConnectFailed(r)
           THEN onError(-1) /\ Return("NULL", "connect")
           ELSE connected' = TRUE /\ UNCHANGED <<_error, errSet>> /\ Goto("handshake")
    /\ log' = Append(log, "connect")
    /\ UNCHANGED <<alive, _response, heap, response, parser, bodyLen,
                   body_size, send_buf, stream, rpos, wire, hardWriteFail,
                   calls, tls, bufs, overReported>>
    /\ UNCHANGED outside

\* mbedtls_ssl_handshake
Handshake ==
    /\ pc = "handshake"
    /\ \E r \in HandshakeResults :
        /\ ret' = r
        /\ IF r < 0
           THEN FailWith(r) /\ Return("NULL", "handshake")
           ELSE NoFailure /\ Goto("write_head")
    /\ log' = Append(log, "handshake")
    /\ UNCHANGED <<alive, _response, heap, response, parser, bodyLen,
                   body_size, send_buf, stream, rpos, wire, hardWriteFail,
                   calls, tls, bufs, overReported>>
    /\ UNCHANGED outside

\* the request head is built and written; free(request) comes after the
\* return of a failed write
WriteHead ==
    /\ pc = "write_head"
    /\ \E o \in mbedtls_ssl_write(Len(build)) :
        /\ ret' = o.ret
        /\ wire' = wire \o SubSeq(build, 1, o.onWire)
        /\ overReported' = (overReported \/ o.over)
        /\ hardWriteFail' =
              (hardWriteFail \/ (o.ret < 0 /\ o.ret # MBEDTLS_ERR_SSL_WANT_READ
                                           /\ o.ret # MBEDTLS_ERR_SSL_WANT_WRITE))
        /\ IF check_mbedtls_ssl_write(o.ret)
           THEN /\ FailWith(o.ret) /\ Return("NULL", "write_head")
                /\ bufs' = bufs \cup {"request"}
           ELSE /\ NoFailure /\ Goto("write_body")
                /\ bufs' = (bufs \cup {"request"}) \ {"request"}
    /\ log' = Append(log, "write_head")
    /\ UNCHANGED <<alive, _response, heap, response, parser, bodyLen,
                   body_size, send_buf, stream, rpos, calls, tls>>
    /\ UNCHANGED outside

\* one turn of the body loop
WriteBody ==
    /\ pc = "write_body"
    /\ body_size > 0
    /\ \E o \in mbedtls_ssl_write(send_size(body_size)) :
        /\ ret' = o.ret
        /\ wire' = wire \o BodyBytes(send_buf, o.onWire)
        /\ overReported' = (overReported \/ o.over)
        /\ hardWriteFail' =
              (hardWriteFail \/ (o.ret < 0 /\ o.ret # MBEDTLS_ERR_SSL_WANT_READ
                                           /\ o.ret # MBEDTLS_ERR_SSL_WANT_WRITE))
        /\ IF check_mbedtls_ssl_write(o.ret)
           THEN FailWith(o.ret) /\ Return("NULL", "write_body")
           ELSE NoFailure /\ Goto("write_body")
    /\ body_size' = body_size - send_size(body_size)
    /\ send_buf' = send_buf + send_size(body_size)
    /\ log' = Append(log, "write_body")
    /\ UNCHANGED <<alive, _response, heap, response, parser, bodyLen,
                   stream, rpos, calls, tls, bufs>>
    /\ UNCHANGED outside

\* the CRLF terminator: the result of its write is dropped, and ret, still
\* that of the write before it, is what is checked
WriteCrlf ==
    /\ pc = "write_body"
    /\ body_size = 0
    /\ \E o \in mbedtls_ssl_write(Len(CRLF)) :
        /\ wire' = wire \o SubSeq(CRLF, 1, o.onWire)
        /\ overReported' = (overReported \/ o.over)
        /\ hardWriteFail' =
              (hardWriteFail \/ (o.ret < 0 /\ o.ret # MBEDTLS_ERR_SSL_WANT_READ
                                           /\ o.ret # MBEDTLS_ERR_SSL_WANT_WRITE))
    /\ IF check_mbedtls_ssl_write(ret)
       THEN FailWith(ret) /\ Return("NULL", "write_crlf")
       ELSE NoFailure /\ Goto("new_response")
    /\ log' = Append(log, "write_crlf")
    /\ UNCHANGED <<alive, _response, heap, response, parser, bodyLen,
                   body_size, send_buf, ret, stream, rpos, calls, tls, bufs>>
    /\ UNCHANGED outside

\* the certificate is reported into buf, the response object, the parser
\* and the receive buffer are created; the server's answer is whatever it is
NewResponse ==
    /\ pc = "new_response"
    /\ \E s \in Streams : stream' = s
    /\ rpos' = 0
    /\ _response' = calls
    /\ heap' = heap \cup {calls}
    /\ bufs' = bufs \cup {"buf", "recv_buffer"}
    /\ response' = EmptyResponse
    /\ parser' = "status"
    /\ NoFailure
    /\ Goto("read")
    /\ log' = Append(log, "new_response")
    /\ overReported' = FALSE
    /\ UNCHANGED <<alive, bodyLen, body_size, send_buf, ret, wire,
                   hardWriteFail, calls, tls>>
    /\ UNCHANGED outside

\* one turn of the read loop, and what follows the loop when it ends
Read ==
    /\ pc = "read"
    /\ \E r \in mbedtls_ssl_read(HTTP_RECEIVE_BUFFER_SIZE, Len(stream) - rpos) :
        /\ ret' = r
        /\ IF r > 0
           THEN \E w \in TerminatorWrite(r) :
                IF w = "crash"
                THEN /\ pc' = "crashed"
                     /\ UNCHANGED <<parser, response, rpos, connected, _error,
                                    errSet, result, retStep, bufs>>
                ELSE LET st == execute(parser, response,
                                       SubSeq(stream, rpos + 1, rpos + r), 0)
                     IN  /\ parser' = st.phase
                         /\ response' = st.rs
                         /\ rpos' = rpos + r
                         /\ IF ParserFailed(st.nparsed, r)
                            THEN /\ SetError(RESPONSE_PARSE_ERROR)
                                 /\ UNCHANGED connected
                                 /\ bufs' = bufs \ {"recv_buffer"}
                                 /\ Return("NULL", "parse")
                            ELSE /\ NoFailure
                                 /\ UNCHANGED bufs
                                 /\ IF NoMoreChunks(r) THEN Goto("finish")
                                                       ELSE Goto("read")
           ELSE /\ UNCHANGED <<parser, response, rpos>>
                /\ IF r < 0
                   THEN /\ FailWith(r) /\ Return("NULL", "read")
                        /\ bufs' = bufs \ {"recv_buffer"}
                   ELSE /\ NoFailure /\ Goto("finish")
                        /\ UNCHANGED bufs
    /\ log' = Append(log, "read")
    /\ UNCHANGED <<alive, _response, heap, bodyLen, body_size, send_buf,
                   stream, wire, hardWriteFail, calls, tls, overReported>>
    /\ UNCHANGED outside

\* parser.finish(), _tcpsocket->close(), free(recv_buffer), return _response
Finish ==
    /\ pc = "finish"
    /\ parser' = (IF parser = "body" THEN "complete" ELSE parser)
    /\ connected' = FALSE
    /\ bufs' = bufs \ {"recv_buffer"}
    /\ UNCHANGED <<_error, errSet>>
    /\ Return("response", "success")
    /\ log' = log \o <<"finish", "close">>
    /\ UNCHANGED <<alive, _response, heap, response, bodyLen, body_size,
                   send_buf, ret, stream, rpos, wire, hardWriteFail, calls,
                   tls, overReported>>
    /\ UNCHANGED outside

(***************************************************************************)
(* The other operations of the object.                                     *)
(***************************************************************************)
\* the frame of a call that has returned is gone
FrameGone ==
    /\ bodyLen' = 0
    /\ body_size' = 0
    /\ send_buf' = 0
    /\ ret' = 0
    /\ stream' = <<>>
    /\ rpos' = 0
    /\ wire' = <<>>
    /\ parser' = "status"
    /\ log' = <<>>
    /\ errSet' = FALSE
    /\ hardWriteFail' = FALSE
    /\ result' = "none"
    /\ retStep' = "none"
    /\ bufs' = {}
    /\ overReported' = FALSE

\* a close() that also frees the TLS contexts
CloseFreesTls ==
    /\ pc \in {"idle", "returned"}
    /\ alive
    /\ connected' = FALSE
    /\ tls' = "freed"
    /\ pc' = "idle"
    /\ FrameGone
    /\ UNCHANGED <<alive, _error, _response, heap, response, calls>>
    /\ UNCHANGED outside

\* HttpsRequest::close
Close ==
    /\ pc \in {"idle", "returned"}
    /\ alive
    /\ connected' = FALSE
    /\ pc' = "idle"
    /\ FrameGone
    /\ UNCHANGED <<alive, _error, _response, heap, response, calls, tls>>
    /\ UNCHANGED outside

\* HttpsRequest::~HttpsRequest: the mbedtls contexts are freed, the socket
\* is deleted, and the response _response points to, if any
Destructor ==
    /\ pc \in {"idle", "returned"}
    /\ alive
    /\ alive' = FALSE
    /\ tls' = "freed"
    /\ connected' = FALSE
    /\ heap' = heap \ {_response}
    /\ pc' = "idle"
    /\ FrameGone
    /\ UNCHANGED <<_error, _response, response, calls>>
    /\ UNCHANGED outside

Next ==
    \/ \E n \in 0..MaxBody : Send(n)
    \/ Setup
    \/ Connect
    \/ Handshake
    \/ WriteHead
    \/ WriteBody
    \/ WriteCrlf
    \/ NewResponse
    \/ Read
    \/ Finish
    \/ Close
    \/ Destructor

Spec == Init /\ [][Next]_vars

(***************************************************************************)
(* The request headers: set_header on a request that has not been sent.    *)
(***************************************************************************)
\* set_header calls made on the one request object
MaxSetHeader == 3

HeaderKeys == {"X", "Y"}

HeaderValues == {"a", "b", "c"}

\* a set_header that adds an entry whether or not the key is there already
SetHeaderAppending(h, key, value) == Append(h, <<key, value>>)

\* HttpRequestBuilder::set_header: the entry of the key is overwritten, or
\* a new entry is made if there is none
HttpRequestBuilder_set_header(h, key, value) ==
    IF \E i \in DOMAIN h : h[i][1] = key
    THEN [i \in DOMAIN h |-> IF h[i][1] = key THEN <<key, value>> ELSE h[i]]
    ELSE Append(h, <<key, value>>)

\* the header lines HttpRequestBuilder::build puts into the request: one
\* for each entry it holds
HeaderLines(h) == [i \in DOMAIN h |-> [name |-> h[i][1], value |-> h[i][2]]]

\* HttpsRequest::set_header
set_header(key, value) ==
    /\ alive
    /\ pc = "idle"
    /\ Len(setCalls) < MaxSetHeader
    /\ headers' = HttpRequestBuilder_set_header(headers, key, value)
    /\ setCalls' = Append(setCalls, <<key, value>>)
    /\ UNCHANGED <<reqVars, spVars>>

NextHeaders == \E key \in HeaderKeys, value \in HeaderValues : set_header(key, value)

SpecHeaders == Init /\ [][NextHeaders]_vars

(***************************************************************************)
(* SpeechInterface (SpeechRecognition/SpeechInterface.cpp): each of its     *)
(* operations makes request objects, sends them and keeps the response of  *)
(* the last one in _response.  A send() yields a response or NULL; the      *)
(* destructor of a request frees the response it owns.                     *)
(***************************************************************************)
\* operations made on the one SpeechInterface object
MaxOps == 3

\* the k-th request object of the operation under way
RequestId(k) == 3 * ops + k

\* what undefined behaviour does: the program goes on or is brought down
Undefined == {"goes_on", "crash"}

\* #define GUID_SIZE 36
GUID_SIZE == 36

\* char * guid = (char *)malloc(33) in recognizeSpeech
GuidBufferSize == 33

\* lengths of the text the GUID service answers with: a GUID without
\* hyphens, and one of GUID_SIZE characters (the request asks hyphen=true)
GuidLengths == {GuidBufferSize - 1, GUID_SIZE}

\* strcpy(guidStr, body): the characters of the body and the terminator
strcpy(len) == len + 1

\* the copy stays inside a buffer of that size
Fits(bytes, room) == bytes <= room

\* SpeechInterface::generateGuidStr(guidStr), guidStr a buffer of the given
\* size or NULL: the body is copied whatever its length, and the request
\* is never deleted
generateGuidStr(buffer, sent, len, ub) ==
    /\ si_alive /\ ~si_crashed /\ ops < MaxOps
    /\ ops' = ops + 1
    /\ IF buffer = NULL
       THEN UNCHANGED <<si_response, requests, responses, guidRoom,
                        guidBytes, si_crashed>>
       ELSE /\ requests' = requests \cup {RequestId(1)}
            /\ responses' = (IF sent THEN responses \cup {RequestId(1)}
                                     ELSE responses)
            /\ si_response' = (IF sent THEN RequestId(1) ELSE NULL)
            /\ guidRoom' = buffer
            /\ guidBytes' = (IF sent THEN strcpy(len) ELSE 0)
            /\ si_crashed' = (sent /\ ~Fits(strcpy(len), buffer)
                                   /\ ub = "crash")
    /\ UNCHANGED <<si_alive, freedTwice, guidFailedUsed, tokenFailedUsed,
                   absentBodyRead>>
    /\ UNCHANGED <<reqVars, hdrVars>>

\* SpeechInterface::getJwtToken: on success the request is deleted, and
\* its response with it, while _response keeps pointing to it; on failure
\* the request stays and a string is made from NULL
getJwtToken(sent, ub) ==
    /\ si_alive /\ ~si_crashed /\ ops < MaxOps
    /\ ops' = ops + 1
    /\ IF sent
       THEN /\ si_response' = RequestId(1)
            /\ UNCHANGED <<requests, responses, si_crashed>>
       ELSE /\ si_response' = NULL
            /\ requests' = requests \cup {RequestId(1)}
            /\ si_crashed' = (ub = "crash")
            /\ UNCHANGED responses
    /\ UNCHANGED <<si_alive, freedTwice, guidFailedUsed, tokenFailedUsed,
                   absentBodyRead, guidRoom, guidBytes>>
    /\ UNCHANGED <<reqVars, hdrVars>>

\* SpeechInterface::recognizeSpeech: the GUID request into a buffer of
\* GuidBufferSize bytes (its result is not looked at), the token request (a
\* failure is not looked at either), then the speech request built from
\* both; after a parsed answer the result is stored through a pointer that
\* was never set, and the request is deleted
recognizeSpeech(guidSent, guidLen, guidUb, tokenSent, tokenUb, speechSent, parsed, resultUb) ==
    /\ si_alive /\ ~si_crashed /\ ops < MaxOps
    /\ ops' = ops + 1
    /\ guidRoom' = GuidBufferSize
    /\ guidBytes' = (IF guidSent THEN strcpy(guidLen) ELSE 0)
    /\ LET guidReq == RequestId(1)
           tokenReq == RequestId(2)
           speechReq == RequestId(3)
           afterGuid == responses \cup (IF guidSent THEN {guidReq} ELSE {})
           kept == requests \cup {guidReq}
                       \cup (IF tokenSent THEN {} ELSE {tokenReq})
       IN  IF guidSent /\ ~Fits(strcpy(guidLen), GuidBufferSize)
              /\ guidUb = "crash"
           THEN /\ si_crashed' = TRUE
                /\ si_response' = guidReq
                /\ requests' = requests \cup {guidReq}
                /\ responses' = afterGuid
                /\ UNCHANGED <<guidFailedUsed, tokenFailedUsed>>
           ELSE
           IF ~tokenSent /\ tokenUb = "crash"
           THEN /\ si_crashed' = TRUE
                /\ si_response' = NULL
                /\ requests' = kept
                /\ responses' = afterGuid
                /\ UNCHANGED <<guidFailedUsed, tokenFailedUsed>>
           ELSE /\ guidFailedUsed' = (guidFailedUsed \/ ~guidSent)
                /\ tokenFailedUsed' = (tokenFailedUsed \/ ~tokenSent)
                /\ IF ~speechSent
                   THEN /\ si_response' = NULL
                        /\ requests' = kept \cup {speechReq}
                        /\ responses' = afterGuid
                        /\ UNCHANGED si_crashed
                   ELSE /\ si_response' = speechReq
                        /\ IF parsed /\ resultUb = "goes_on"
                           THEN /\ requests' = kept
                                /\ responses' = afterGuid
                                /\ UNCHANGED si_crashed
                           ELSE /\ requests' = kept \cup {speechReq}
                                /\ responses' = afterGuid \cup {speechReq}
                                /\ si_crashed' = parsed
    /\ UNCHANGED <<si_alive, freedTwice, absentBodyRead>>
    /\ UNCHANGED <<reqVars, hdrVars>>

\* SpeechInterface::sentToIotHub: the body is read whether or not send()
\* returned a response, then the request is deleted
sentToIotHub(sent, ub) ==
    /\ si_alive /\ ~si_crashed /\ ops < MaxOps
    /\ ops' = ops + 1
    /\ IF sent
       THEN /\ si_response' = RequestId(1)
            /\ UNCHANGED <<requests, absentBodyRead, si_crashed>>
       ELSE /\ si_response' = NULL
            /\ absentBodyRead' = TRUE
            /\ si_crashed' = (ub = "crash")
            /\ requests' = (IF ub = "crash" THEN requests \cup {RequestId(1)}
                                            ELSE requests)
    /\ UNCHANGED <<si_alive, responses, freedTwice, guidFailedUsed,
                   tokenFailedUsed, guidRoom, guidBytes>>
    /\ UNCHANGED <<reqVars, hdrVars>>

\* SpeechInterface::~SpeechInterface: delete _response if it is not NULL
SpeechDestructor(ub) ==
    /\ si_alive /\ ~si_crashed
    /\ si_alive' = FALSE
    /\ IF si_response = NULL
       THEN UNCHANGED <<responses, freedTwice, si_crashed>>
       ELSE IF si_response \in responses
            THEN /\ responses' = responses \ {si_response}
                 /\ UNCHANGED <<freedTwice, si_crashed>>
            ELSE /\ freedTwice' = TRUE
                 /\ si_crashed' = (ub = "crash")
                 /\ UNCHANGED responses
    /\ UNCHANGED <<si_response, requests, guidFailedUsed, tokenFailedUsed,
                   absentBodyRead, ops, guidRoom, guidBytes>>
    /\ UNCHANGED <<reqVars, hdrVars>>

NextSpeech ==
    \/ \E buffer \in {NULL, GUID_SIZE + 1}, sent \in BOOLEAN :
          \E len \in GuidLengths, ub \in Undefined :
             generateGuidStr(buffer, sent, len, ub)
    \/ \E sent \in BOOLEAN, ub \in Undefined : getJwtToken(sent, ub)
    \/ \E guidSent, tokenSent, speechSent, parsed \in BOOLEAN :
          \E guidLen \in GuidLengths, guidUb, tokenUb, resultUb \in Undefined :
             recognizeSpeech(guidSent, guidLen, guidUb, tokenSent, tokenUb,
                             speechSent, parsed, resultUb)
    \/ \E sent \in BOOLEAN, ub \in Undefined : sentToIotHub(sent, ub)
    \/ \E ub \in Undefined : SpeechDestructor(ub)

SpecSpeech == Init /\ [][NextSpeech]_vars

(***************************************************************************)
(* Properties.                                                             *)
(***************************************************************************)
LastStep == IF log = <<>> THEN "none" ELSE log[Len(log)]

Did(step) == \E i \in 1..Len(log) : log[i] = step

IsWant(r) == r \in {MBEDTLS_ERR_SSL_WANT_READ, MBEDTLS_ERR_SSL_WANT_WRITE}

\* send() has just returned because of a want-read/want-write condition
WantReturn ==
    /\ pc = "returned"
    /\ retStep \in {"handshake", "write_head", "write_body", "write_crlf", "read"}
    /\ IsWant(ret)

\* the body bytes among those the transport accepted
BodyOnWire == SelectSeq(wire, LAMBDA b : b \in 1..bodyLen)

\* C1: whenever send() returns a response for a complete, valid response
\* stream, however the stream was split into reads, the response holds the
\* status, headers and body that parsing the whole stream at once yields.
C1_ChunkBoundaryIndependent ==
    (pc = "returned" /\ result = "response" /\ ValidResponse(stream))
        => response = ParseAll(stream).rs

\* C2: whenever send() returns after the connection was opened, for another
\* reason than a want-read/want-write condition, the transport is closed.
C2_ClosedOnReturn ==
    (pc = "returned" /\ Did("handshake") /\ ~WantReturn) => ~connected

\* C3: once the parser has consumed fewer bytes than a read delivered, send()
\* has returned no response and _error is the response-parse code (-2101),
\* however many chunks parsed before.
C3_ParseErrorReported ==
    parser = "error"
        => (pc = "returned" /\ result = "NULL" /\ _error = RESPONSE_PARSE_ERROR)

C3_Witness ==
    /\ parser = "error"
    /\ pc = "returned"
    /\ rpos > HTTP_RECEIVE_BUFFER_SIZE
    /\ _error = RESPONSE_PARSE_ERROR

\* C4: when connect reports a hard failure, send() has returned no response,
\* _error holds the connection error code, the transport is closed, and
\* neither the handshake was started nor any request byte written.
C4_ConnectFailure ==
    (LastStep = "connect" /\ ret = NSAPI_ERROR_NO_CONNECTION)
        => /\ pc = "returned"
           /\ result = "NULL"
           /\ _error = -1
           /\ ~connected
           /\ ~Did("handshake")
           /\ wire = <<>>

C4_Witness ==
    /\ LastStep = "connect"
    /\ ret = NSAPI_ERROR_NO_CONNECTION
    /\ pc = "returned"
    /\ calls = 2

\* C5: every body write is of at most the chunking threshold, and once the
\* body loop is over the body bytes the channel accepted are, in order, the
\* bytes of the body, none skipped and none repeated.
C5_BodyTransmittedExactly ==
    /\ pc = "write_body" => send_size(body_size) <= WriteChunk
    /\ (Did("write_crlf") /\ result # "NULL")
          => BodyOnWire = BodyBytes(0, bodyLen)

\* C6: a want-read/want-write result of the handshake makes send() return
\* no response with the transport left open and the condition recorded as
\* such; any other negative result makes it return no response with the
\* transport closed and an error recorded.
C6_HandshakeFailure ==
    (LastStep = "handshake" /\ ret < 0)
        => /\ pc = "returned"
           /\ result = "NULL"
           /\ errSet
           /\ IF IsWant(ret) THEN connected /\ _error = ret
                             ELSE ~connected /\ _error = -1

C6_Witness ==
    /\ LastStep = "handshake"
    /\ ret = MBEDTLS_ERR_SSL_WANT_READ
    /\ pc = "returned"
    /\ connected

\* C7: at every point at most one response object allocated by the request
\* object is live.
C7_AtMostOneResponseLive == Cardinality(heap) <= 1

\* the code the step at which send() returned records
RecordedCode ==
    CASE retStep = "setup" -> ret
      [] retStep = "connect" -> -1
      [] retStep = "parse" -> RESPONSE_PARSE_ERROR
      [] OTHER -> IF IsWant(ret) THEN ret ELSE -1

\* C8: after a send() that returns no response, _error was assigned during
\* that call and holds the code of the step that failed.
C8_ErrorOfThisCall ==
    (pc = "returned" /\ result = "NULL") => (errSet /\ _error = RecordedCode)

C8_Witness ==
    /\ pc = "returned"
    /\ result = "NULL"
    /\ calls = 2
    /\ retStep = "read"
    /\ _error = MBEDTLS_ERR_SSL_WANT_READ

\* C9: once an encrypted write of the head, of a body chunk or of the CRLF
\* has failed hard, send() has returned no response, the transport is closed
\* and an error is recorded; no response is read after it.
C9_NoReadAfterFailedWrite ==
    hardWriteFail
        => (pc = "returned" /\ result = "NULL" /\ ~connected /\ errSet)

\* C10 as stated: a would-block result of connect does not make send()
\* return with the connection error and does not close the transport.
C10_WouldBlockNotFatal ==
    (LastStep = "connect" /\ ret = NSAPI_ERROR_WOULD_BLOCK)
        => (pc # "returned" /\ ~errSet)

\* C10, amended: send() fails at the connect step exactly when connect
\* reports anything but OK, would-block included; it then returns no
\* response, records the connection error and closes the transport.
C10_ConnectFailsUnlessOk ==
    LastStep = "connect"
        => ((ret # NSAPI_ERROR_OK)
              <=> (pc = "returned" /\ result = "NULL" /\ _error = -1
                     /\ errSet /\ ~connected))

C10_Witness ==
    /\ LastStep = "connect"
    /\ ret = NSAPI_ERROR_WOULD_BLOCK
    /\ pc = "returned"
    /\ ~connected

\* C11: the TLS session state is released by the destructor and by nothing
\* else: while the object lives, whatever send() returned and however often
\* close() was called, the mbedtls contexts are not freed; once it is
\* destroyed they are.
C11_TlsFreedOnlyByDestructor == (tls = "freed") <=> ~alive

\* a send() that set the session up has returned and close() was called
C11_Witness ==
    /\ alive
    /\ calls >= 1
    /\ pc = "idle"
    /\ tls = "setup"

\* the calls of set_header so far that named the key
CallsFor(key) == {i \in DOMAIN setCalls : setCalls[i][1] = key}

\* the header lines of the outgoing request that carry the key
LinesFor(key) ==
    {i \in DOMAIN HeaderLines(headers) : HeaderLines(headers)[i].name = key}

\* C12: the outgoing request holds one line for each key set_header was
\* called with and none for any other key, and the line of a key carries the
\* value of the last call that named it: a second set_header(k, b)
\* replaces the value of k and leaves the lines of the other keys alone.
C12_LastValueWins ==
    \A key \in HeaderKeys :
        IF CallsFor(key) = {}
        THEN LinesFor(key) = {}
        ELSE /\ Cardinality(LinesFor(key)) = 1
             /\ \A i \in LinesFor(key) :
                    \A last \in CallsFor(key) :
                        (\A j \in CallsFor(key) : j <= last)
                            => HeaderLines(headers)[i].value = setCalls[last][2]

\* set_header(X, a), then set_header(Y, c), then set_header(X, b)
C12_Witness ==
    /\ setCalls = << <<"X", "a">>, <<"Y", "c">>, <<"X", "b">> >>
    /\ Len(headers) = 2

\* the steps that may come one after the other within one call
Follows ==
    {<<"setup", "connect">>, <<"connect", "handshake">>,
     <<"handshake", "write_head">>, <<"write_head", "write_body">>,
     <<"write_head", "write_crlf">>, <<"write_body", "write_body">>,
     <<"write_body", "write_crlf">>, <<"write_crlf", "new_response">>,
     <<"new_response", "read">>, <<"read", "read">>, <<"read", "finish">>,
     <<"finish", "close">>}

\* how often the current call has taken the step
Count(step) == Cardinality({i \in DOMAIN log : log[i] = step})

\* C13: the steps of one send() come in a fixed order.  The call begins with
\* the setup and every step follows one it may follow; the handshake is
\* started only after connect reported OK, the head is written only after
\* the handshake completed, a body chunk only after the write before it
\* succeeded, the chunks go out in order and the CRLF is written when the
\* whole body has been handed over; reading begins only after the CRLF was
\* written; a call that returns the response has finalized the parser and
\* then closed the transport as its last two steps.
C13_StepsInOrder ==
    /\ log # <<>> => log[1] = "setup"
    /\ \A i \in 1..(Len(log) - 1) : <<log[i], log[i + 1]>> \in Follows
    /\ pc = "handshake"
          => (LastStep = "connect" /\ ret = NSAPI_ERROR_OK /\ connected)
    /\ pc = "write_head" => (LastStep = "handshake" /\ ret = 0)
    /\ pc = "write_body"
          => (LastStep \in {"write_head", "write_body"} /\ ret > 0)
    /\ Did("write_head") /\ ~Did("write_crlf")
          => (/\ send_buf + body_size = bodyLen
              /\ send_buf = (IF Count("write_body") * WriteChunk < bodyLen
                             THEN Count("write_body") * WriteChunk
                             ELSE bodyLen))
    /\ Did("write_crlf") => (send_buf = bodyLen /\ body_size = 0)
    /\ Did("read") => Did("write_crlf")
    /\ result = "response"
          => (/\ pc = "returned"
              /\ Len(log) >= 2
              /\ SubSeq(log, Len(log) - 1, Len(log)) = <<"finish", "close">>
              /\ ~connected)

\* a call with a body of two chunks and two reads that returned the response
C13_Witness ==
    /\ result = "response"
    /\ Count("write_body") = 2
    /\ Count("read") = 2
    /\ log = <<"setup", "connect", "handshake", "write_head", "write_body",
               "write_body", "write_crlf", "new_response", "read", "read",
               "finish", "close">>

\* C14: the read loop reads again only after a read that filled the whole
\* receive buffer: after a read that returned fewer bytes, zero or an
\* error, the call has left the loop.
C14_ReadAgainOnlyAfterFullRead ==
    LastStep = "read"
        => /\ pc = "read" => ret = HTTP_RECEIVE_BUFFER_SIZE
           /\ ret < HTTP_RECEIVE_BUFFER_SIZE
                 => pc \in {"finish", "returned"}
           /\ (ret > 0 /\ ret < HTTP_RECEIVE_BUFFER_SIZE /\ parser # "error")
                 => pc = "finish"

\* a full read was followed by a short one, which ended the loop while the
\* server still had a byte to deliver
C14_Witness ==
    /\ Count("read") = 2
    /\ LastStep = "read"
    /\ pc = "finish"
    /\ ret > 0
    /\ ret < HTTP_RECEIVE_BUFFER_SIZE

\* C15: ssl_send never reports to the TLS layer more bytes sent than the
\* transport accepted: a would-block of the transport during a write of
\* send() is passed on as a want-write with no byte counted as sent.
C15_NeverMoreThanAccepted == ~overReported

\* the steps every call that gets as far as the head takes first
FirstSteps == <<"setup", "connect", "handshake", "write_head">>

\* C16: send() keeps no progress across calls.  A call made after an
\* earlier one, a want-read/want-write return included, takes the steps
\* from the first one on, writes the head from its first byte and the body
\* from its first byte, whatever the earlier call had sent already.
C16_NoProgressKept ==
    (calls >= 2 /\ pc # "idle")
        => /\ \A i \in 1..Len(log) :
                  i <= Len(FirstSteps) => log[i] = FirstSteps[i]
           /\ (LastStep = "write_head" /\ ret > 0 /\ ~overReported)
                  => wire = build
           /\ (LastStep = "write_body" /\ Count("write_body") = 1
                 /\ ret > 0 /\ ~overReported)
                  => wire = build \o BodyBytes(0, ret)

\* the first call returned on a want-read/write (the code it recorded is
\* still in _error), and the second has written the head and the first
\* body byte again
C16_Witness ==
    /\ calls = 2
    /\ IsWant(_error)
    /\ ~errSet
    /\ LastStep = "write_body"
    /\ Len(wire) >= 2
    /\ wire[1] = 0
    /\ wire[2] = 1

\* C17: after a read that returned n bytes, 0 < n <= HTTP_RECEIVE_BUFFER_SIZE,
\* the terminating zero byte is stored at an index inside the receive buffer.
C17_TerminatorInsideBuffer ==
    (LastStep = "read" /\ ret > 0) => TerminatorInBounds(ret)

\* C18: when send() has returned, on whatever path, every buffer the call
\* allocated (the serialized request, the certificate-information buffer,
\* the receive buffer) has been released.
C18_BuffersReleasedOnReturn == pc = "returned" => bufs = {}

\* C19: over any sequence of SpeechInterface operations no response object
\* is freed twice, and the response _response points to has not been freed
\* with the request that owned it.
C19_ResponseNotKeptPastRequest ==
    /\ ~freedTwice
    /\ si_response # NULL => si_response \in responses

\* C20: no speech request is built from the buffer of a failed GUID
\* request or from the token of a failed token request, and the body of a
\* response is read only when send() returned one.
C20_ResultUsedOnlyIfPresent ==
    /\ ~guidFailedUsed
    /\ ~tokenFailedUsed
    /\ ~absentBodyRead

\* C21: whatever generateGuidStr copied into the buffer recognizeSpeech
\* allocated for the GUID, a GUID of GUID_SIZE characters and its
\* terminator included, lies inside that buffer.
C21_GuidFitsBuffer ==
    guidRoom = GuidBufferSize => Fits(guidBytes, guidRoom)

====
